---- MODULE Spec2Model ----
(***************************************************************************)
(* The statement-parsing pipeline of clio's worker service:                *)
(*   - parse_statement_task (services/worker/app/tasks/parse_statement.py) *)
(*     run by Celery workers against the artifact/bill tables, and         *)
(*   - the parsers it calls (services/worker/app/parsers).                 *)
(***************************************************************************)
EXTENDS Integers, Sequences, FiniteSets, TLC

\* ------------------------------------------------------------------ bounds
NumArtifacts == 1
NumWorkers == 2
MaxDeliveries == 2
TickSeconds == 60

\* ------------------------------------------------------- program constants
TaskTimeLimit == 300
TaskSoftTimeLimit == 240
MaxRetries == 3
RetryBudget == 3
RetryCountdown == 60
MinTextLength == 100
ConfidenceThreshold == 80

Artifacts == 1..NumArtifacts
Workers == 1..NumWorkers

\* ---------------------------------------------------------------- calendar
\* datetime.date of the standard library: proleptic Gregorian, years 1..9999.
IsLeap(y) == (y % 4 = 0) /\ ((y % 100 # 0) \/ (y % 400 = 0))

DaysInMonth(y, m) ==
    IF m = 2 THEN (IF IsLeap(y) THEN 29 ELSE 28)
    ELSE IF m \in {4, 6, 9, 11} THEN 30 ELSE 31

\* date(y, m, d) raises ValueError unless this holds.
ValidDate(y, m, d) ==
    /\ y >= 1 /\ y <= 9999
    /\ m >= 1 /\ m <= 12
    /\ d >= 1 /\ d <= DaysInMonth(y, m)

MkDate(y, m, d) == [y |-> y, m |-> m, d |-> d]
NoDate == MkDate(0, 0, 0)
DateMax == MkDate(9999, 12, 31)

NextDay(dt) ==
    IF dt.d < DaysInMonth(dt.y, dt.m) THEN MkDate(dt.y, dt.m, dt.d + 1)
    ELSE IF dt.m < 12 THEN MkDate(dt.y, dt.m + 1, 1)
    ELSE MkDate(dt.y + 1, 1, 1)

\* date + timedelta(days=k), k >= 0: NoDate stands for OverflowError
\* ("date value out of range"), raised when the result passes date.max.
RECURSIVE AddDays(_, _)
AddDays(dt, k) ==
    IF k = 0 THEN dt
    ELSE IF dt = DateMax THEN NoDate
    ELSE AddDays(NextDay(dt), k - 1)

\* "%d" % n: the decimal digits of n, without leading zeros.
RECURSIVE Digits(_)
Digits(n) == IF n < 10 THEN <<n>> ELSE Append(Digits(n \div 10), n % 10)

\* date.strftime("%Y-%m") as the C library of the worker's image (glibc)
\* writes it: the digits of the year, not padded, and after the "-" the two
\* digits of the month.
StrftimeYm(dt) == [year |-> Digits(dt.y), month |-> <<dt.m \div 10, dt.m % 10>>]

\* datetime.now().date(): the day the worker runs.
Today == MkDate(2026, 11, 4)

\* -------------------------------------------------------- statement text
\* A statement text is a sequence of tokens, one per line of the statement.
\* A token is a literal (a bank keyword or a field label) followed, after
\* ": ", by a value. A literal is the sequence of its atoms, the pieces the
\* keywords and the regular expressions of the parsers refer to; a keyword
\* occurs in a literal when its atoms are an infix of the literal's. Atoms
\* are written in Hanyu Pinyin:
\*   zhongguoxintuo 中國信託   guotai 國泰    shihua 世華     taixin 台新
\*   xinyongka 信用卡          zhangdan 帳單  benqi 本期      yingjiao 應繳
\*   jine 金額                 zuidi 最低     riqi 日期       jiezhang 結帳
\*   ri 日                     jiaokuan 繳款  jiezhi 截止     minguo 民國
\*   kahao 卡號                mo 末          sima 四碼
\*   yuan 元
\* Ctbc is the Latin word "Ctbc", the one literal with capitals.
\* and mingxi120 is a block of 120 characters of transaction lines that
\* holds no keyword, label or digit.
\* Values:
\*   kind "none"   : no value
\*   kind "date"   : y sep m sep d, y written with 4 digits; sep is "-", "/"
\*                   or "--", the dash glyph U+2014 that OCR produces
\*   kind "amount" : n hundredths, written with thousands separators and two
\*                   decimals ("12,345.67"), after "$" when sep = "$"; n = 0
\*                   is written "0"
\*   kind "commas" : the string ","  (matches [\d,]+ but is no number)
\*   kind "minguo" : " y 年 m 月 d 日" after the literal 民國, y with 3 digits
\*   kind "card"   : the 4 digits of n
MkVal(kind, y, m, d, n, sep) ==
    [kind |-> kind, y |-> y, m |-> m, d |-> d, n |-> n, sep |-> sep]
NoVal == MkVal("none", 0, 0, 0, 0, "")
DateVal(y, m, d, sep) == MkVal("date", y, m, d, 0, sep)
AmountVal(n, sep) == MkVal("amount", 0, 0, 0, n, sep)
CommasVal == MkVal("commas", 0, 0, 0, 0, "")
MinguoVal(y, m, d) == MkVal("minguo", y, m, d, 0, "")
CardVal(n) == MkVal("card", 0, 0, 0, n, "")

Tok(lit, val) == [lit |-> lit, val |-> val]

\* The vocabulary: the lines a statement text of the model is made of.
Vocabulary ==
    { Tok(<<"zhongguoxintuo">>, NoVal),
      Tok(<<"guotai", "shihua">>, NoVal),
      Tok(<<"taixin">>, NoVal),
      Tok(<<"Ctbc">>, NoVal),
      Tok(<<"xinyongka", "zhangdan">>, NoVal),
      Tok(<<"benqi", "yingjiao", "jine">>, AmountVal(1234567, "$")),
      Tok(<<"benqi", "yingjiao", "jine">>, CommasVal),
      Tok(<<"benqi", "yingjiao", "jine">>, AmountVal(0, "")),
      Tok(<<"zuidi", "yingjiao", "jine">>, AmountVal(100000, "$")),
      Tok(<<"zhangdan", "riqi">>, DateVal(2024, 1, 15, "-")),
      Tok(<<"zhangdan", "riqi">>, DateVal(2024, 13, 45, "-")),
      Tok(<<"zhangdan", "riqi">>, DateVal(9999, 12, 31, "/")),
      Tok(<<"zhangdan", "riqi">>, DateVal(999, 1, 15, "/")),
      Tok(<<"jiezhang", "ri">>, DateVal(2024, 1, 10, "--")),
      Tok(<<"jiaokuan", "jiezhi", "ri">>, DateVal(2024, 2, 5, "-")),
      Tok(<<"jiaokuan", "jiezhi", "ri">>, DateVal(2024, 2, 30, "-")),
      Tok(<<"minguo">>, MinguoVal(113, 1, 15)),
      Tok(<<"minguo">>, MinguoVal(113, 13, 1)),
      Tok(<<"kahao", "mo", "sima">>, CardVal(1234)),
      Tok(<<"yuan">>, NoVal),
      Tok(<<"mingxi120">>, NoVal) }

MaxTextLen == 2

\* A whole statement: its lines, in any order, any of them left out.
StatementLines ==
    { Tok(<<"zhongguoxintuo">>, NoVal),
      Tok(<<"kahao", "mo", "sima">>, CardVal(1234)),
      Tok(<<"zhangdan", "riqi">>, DateVal(2024, 1, 15, "-")),
      Tok(<<"jiaokuan", "jiezhi", "ri">>, DateVal(2024, 2, 5, "-")),
      Tok(<<"benqi", "yingjiao", "jine">>, AmountVal(1234567, "")),
      Tok(<<"zuidi", "yingjiao", "jine">>, AmountVal(100000, "")) }

RECURSIVE Arrangements(_)
Arrangements(S) ==
    {<<>>} \cup UNION {{<<x>> \o t : t \in Arrangements(S \ {x})} : x \in S}

Statements == Arrangements(StatementLines)

RECURSIVE SeqsUpTo(_, _)
SeqsUpTo(S, n) ==
    IF n = 0 THEN {<<>>}
    ELSE LET shorter == SeqsUpTo(S, n - 1)
         IN  shorter \cup {Append(t, x) : t \in {u \in shorter : Len(u) = n - 1}, x \in S}

Texts == SeqsUpTo(Vocabulary, MaxTextLen)

\* ------------------------------------------------- regular expressions
IsSuffix(p, l) ==
    Len(p) <= Len(l) /\ \A k \in 1..Len(p) : l[Len(l) - Len(p) + k] = p[k]
IsPrefix(p, l) ==
    Len(p) <= Len(l) /\ \A k \in 1..Len(p) : l[k] = p[k]
IsInfix(p, l) ==
    \E o \in 0..(Len(l) - Len(p)) : \A k \in 1..Len(p) : l[o + k] = p[k]

MinOf(S) == CHOOSE x \in S : \A y \in S : x <= y
MaxOf(S) == CHOOSE x \in S : \A y \in S : x >= y

\* Positions in a text: atom k of token i is at 10 * i + k, the value of
\* token i after all its atoms, at 10 * i + 9.
AtomPos(i, k) == 10 * i + k
ValPos(i) == 10 * i + 9
\* The positions at which an atom of the set S starts.
StemPositions(text, S) ==
    UNION {{AtomPos(i, k) : k \in {j \in 1..Len(text[i].lit) : text[i].lit[j] \in S}}
           : i \in 1..Len(text)}

\* \d{4}[/-]\d{1,2}[/-]\d{1,2} matches the whole value.
DateShaped(v) == v.kind = "date" /\ v.sep \in {"-", "/"}
\* [\d,]+\.?\d* matches a prefix of the value (after an optional currency sign).
AmountShaped(v) == v.kind \in {"amount", "commas", "card"} \/ DateShaped(v)
\* The value starts with \d{4}.
FourDigits(v) ==
    IF v.kind = "card" THEN v.n
    ELSE IF v.kind = "date" THEN v.y
    ELSE -1

\* What group(1) holds: a value, or a part of one.
NoMatch == MkVal("nomatch", 0, 0, 0, 0, "")
\* ([\d,]+\.?\d*) at the start of a value.
AmountPrefix(v) ==
    IF v.kind = "date" THEN MkVal("digits", 0, 0, 0, v.y, "")
    ELSE v
\* The value ends with a digit or a comma.
EndsWithDigits(v) == v.kind \in {"amount", "commas", "card", "date"}
\* ([\d,]+\.?\d*) at the end of a value.
AmountTail(v) ==
    IF v.kind = "date" THEN MkVal("digits", 0, 0, 0, v.d, "")
    ELSE v

Pat(type, a, b) == [type |-> type, a |-> a, b |-> b]

\* The tokens whose literal ends with one of the atoms B and whose value has
\* the shape, after position pos.
AfterB(text, pos, B, Shape(_)) ==
    {j \in 1..Len(text) :
        /\ Len(text[j].lit) > 0
        /\ text[j].lit[Len(text[j].lit)] \in B
        /\ AtomPos(j, Len(text[j].lit)) > pos
        /\ Shape(text[j].val)}

\* The value of the leftmost token among hits, or NoMatch.
FirstVal(text, hits) == IF hits = {} THEN NoMatch ELSE text[MinOf(hits)].val

\* (\d{4}[/-]\d{1,2}) of a date: its year and month.
YearMonth(v) == IF v = NoMatch THEN NoMatch ELSE MkVal("ym", v.y, v.m, 0, 0, "")
\* (\d{3}) of a minguo date: its year.
MinguoYear(v) == IF v = NoMatch THEN NoMatch ELSE MkVal("digits", 0, 0, 0, v.y, "")

\* (?:A).*?(?:B)[\s:]*(...): from the leftmost A that has a match, the
\* nearest B that is followed by a value of the shape.
AbFeasible(text, as, B, Shape(_)) == {q \in as : AfterB(text, q, B, Shape) # {}}
AbMatch(text, B, Shape(_), feasible) ==
    IF feasible = {} THEN NoMatch
    ELSE FirstVal(text, AfterB(text, MinOf(feasible), B, Shape))

\* re.search(pattern, text) for the patterns that capture a date or an
\* amount: the value captured by the leftmost match, or NoMatch.
Search(pat, text, Shape(_)) ==
    CASE pat.type = "label" ->
           \* LABEL[\s:]*(...)
           FirstVal(text, {i \in 1..Len(text) :
                              IsSuffix(pat.a, text[i].lit) /\ Shape(text[i].val)})
      [] pat.type = "labels" ->
           \* (?:LABEL|LABEL|...)[\s:]*(...)
           FirstVal(text, {i \in 1..Len(text) :
                              /\ \E l \in pat.b : IsSuffix(l, text[i].lit)
                              /\ Shape(text[i].val)})
      [] pat.type = "label_ym" ->
           \* (?:LABEL|LABEL)[\s:]*(\d{4}[/-]\d{1,2}): the year and month of a date
           YearMonth(FirstVal(text, {i \in 1..Len(text) :
                                        /\ \E l \in pat.b : IsSuffix(l, text[i].lit)
                                        /\ DateShaped(text[i].val)}))
      [] pat.type = "minguo3" ->
           \* 民國\s*(\d{3})\s*年\s*(\d{1,2})\s*月\s*(\d{1,2}): group(1) is the year
           MinguoYear(FirstVal(text, {i \in 1..Len(text) :
                                         /\ IsSuffix(<<"minguo">>, text[i].lit)
                                         /\ text[i].val.kind = "minguo"}))
      [] pat.type = "then" ->
           \* (...)\s*LABEL: a value directly followed by the literal
           FirstVal(text, {i \in 1..(Len(text) - 1) :
                              Shape(text[i].val) /\ IsPrefix(pat.a, text[i + 1].lit)})
      [] pat.type = "unit" ->
           \* ([\d,]+\.?\d*)\s*(?:unit): the digits that end a value
           AmountTail(FirstVal(text, {i \in 1..(Len(text) - 1) :
                                         /\ EndsWithDigits(text[i].val)
                                         /\ \E u \in pat.a : IsPrefix(<<u>>, text[i + 1].lit)}))
      [] pat.type = "before" ->
           \* (...).*?(?:stems): the leftmost value with a stem after it
           FirstVal(text, {i \in 1..Len(text) :
                              /\ Shape(text[i].val)
                              /\ \E q \in StemPositions(text, pat.a) : q > ValPos(i)})
      [] pat.type = "ab" ->
           AbMatch(text, pat.b, Shape,
                   AbFeasible(text, StemPositions(text, pat.a), pat.b, Shape))
      [] pat.type = "dollar" ->
           \* [$...]\s*([\d,]+\.?\d*)
           FirstVal(text, {i \in 1..Len(text) : text[i].val.sep = "$"})
      [] OTHER -> NoMatch

\* The four digits that start the leftmost (the rightmost) value among hits,
\* or -1.
FirstFour(text, hits) == IF hits = {} THEN -1 ELSE FourDigits(text[MinOf(hits)].val)
LastFour(text, hits) == IF hits = {} THEN -1 ELSE FourDigits(text[MaxOf(hits)].val)

FirstDigitsAfter(text, pos) ==
    FirstFour(text, {j \in 1..Len(text) : ValPos(j) > pos /\ FourDigits(text[j].val) >= 0})
LastDigitsAfter(text, pos) ==
    LastFour(text, {j \in 1..Len(text) : ValPos(j) > pos /\ FourDigits(text[j].val) >= 0})

\* The positions at which the atoms p start.
InfixPositions(text, p) ==
    UNION {{AtomPos(i, k) : k \in {j \in 1..Len(text[i].lit) :
                                      /\ j + Len(p) - 1 <= Len(text[i].lit)
                                      /\ \A x \in 1..Len(p) : text[i].lit[j + x - 1] = p[x]}}
           : i \in 1..Len(text)}

FirstAfterLeftmost(text, feasible) ==
    IF feasible = {} THEN -1 ELSE FirstDigitsAfter(text, MinOf(feasible))
LastAfterLeftmost(text, feasible) ==
    IF feasible = {} THEN -1 ELSE LastDigitsAfter(text, MinOf(feasible))
\* (?:A).*?(?:M).*?(\d{4}): from the leftmost A that has a match, the
\* nearest M, and the first four digits after it.
AmdMatch(text, ms, feasible) ==
    IF feasible = {} THEN -1
    ELSE FirstDigitsAfter(text, MinOf({r \in ms : r > MinOf(feasible)}))

\* re.search(pattern, text) for the patterns that capture a card suffix:
\* the four digits captured by the leftmost match, or -1.
CardSearch(pat, text) ==
    CASE pat.type = "label" ->
           \* LABEL[\s:]*(\d{4})
           FirstFour(text, {i \in 1..Len(text) :
                               IsSuffix(pat.a, text[i].lit) /\ FourDigits(text[i].val) >= 0})
      [] pat.type = "lazy" ->
           \* LABEL.*?(\d{4}): the first four digits after the leftmost LABEL
           FirstAfterLeftmost(text, {q \in InfixPositions(text, pat.a) :
                                        FirstDigitsAfter(text, q) >= 0})
      [] pat.type = "greedy" ->
           \* LABEL.*[-\s](\d{4}): the last four digits (after a blank) that
           \* follow the leftmost LABEL
           LastAfterLeftmost(text, {q \in InfixPositions(text, pat.a) :
                                       LastDigitsAfter(text, q) >= 0})
      [] pat.type = "amd" ->
           AmdMatch(text, StemPositions(text, pat.b),
                    {q \in StemPositions(text, pat.a) :
                        \E r \in StemPositions(text, pat.b) :
                            r > q /\ FirstDigitsAfter(text, r) >= 0})
      [] pat.type = "msima" ->
           \* (?:M)\s*(?:四碼|4碼|四|4|\d)\s*[\s:]*(\d{4})
           FirstFour(text, {i \in 1..Len(text) :
                               /\ \E m \in pat.a : IsSuffix(<<m, "sima">>, text[i].lit)
                               /\ FourDigits(text[i].val) >= 0})
      [] OTHER -> -1

\* ----------------------------------------------------------- text length
\* len() of an atom, in characters.
AtomLen(a) ==
    CASE a = "mingxi120" -> 120
      [] a \in {"zhongguoxintuo", "Ctbc"} -> 4
      [] a = "xinyongka" -> 3
      [] a \in {"ri", "mo", "yuan"} -> 1
      [] OTHER -> 2

RECURSIVE SumLen(_)
SumLen(lit) == IF lit = <<>> THEN 0 ELSE AtomLen(Head(lit)) + SumLen(Tail(lit))

RECURSIVE NumDigits(_)
NumDigits(n) == IF n < 10 THEN 1 ELSE 1 + NumDigits(n \div 10)

\* len() of a written value, with the ": " (or the blank) before it.
ValLen(v) ==
    CASE v.kind = "none" -> 0
      [] v.kind = "date" -> 12
      [] v.kind = "minguo" -> 16
      [] v.kind = "commas" -> 3
      [] v.kind = "card" -> 6
      [] v.kind = "amount" ->
           2 + NumDigits(v.n \div 100) + ((NumDigits(v.n \div 100) - 1) \div 3)
             + (IF v.n % 100 = 0 THEN 0 ELSE 3) + (IF v.sep = "$" THEN 1 ELSE 0)
      [] OTHER -> 0

\* len(text): the lines are joined by one separator character.
RECURSIVE TextLen(_)
TextLen(text) ==
    IF text = <<>> THEN 0
    ELSE SumLen(Head(text).lit) + ValLen(Head(text).val)
         + (IF Len(text) > 1 THEN 1 ELSE 0) + TextLen(Tail(text))

\* text[:n]: the longest prefix of whole lines within n characters.
Truncate(text, n) ==
    SubSeq(text, 1, MaxOf({k \in 0..Len(text) : TextLen(SubSeq(text, 1, k)) <= n}))

\* ------------------------------------------------------- parsers/base.py
\* BaseParser.clean_text: whitespace runs become one blank and the OCR
\* glyphs are replaced, so a date written with U+2014 becomes a date with "-".
clean_text(text) ==
    [i \in 1..Len(text) |->
        IF text[i].val.sep = "--"
        THEN Tok(text[i].lit, [text[i].val EXCEPT !.sep = "-"])
        ELSE text[i]]

\* BaseParser._parse_date: NoDate stands for ValueError.
parse_date(v) ==
    IF v.kind = "date" /\ v.sep \in {"-", "/"} /\ ValidDate(v.y, v.m, v.d)
    THEN MkDate(v.y, v.m, v.d)
    ELSE NoDate

\* BaseParser.extract_date, from pattern k on: NoDate stands for None.
RECURSIVE extract_date_from(_, _, _)
DateOrNext(d, text, patterns, k) ==
    IF d # NoDate THEN d ELSE extract_date_from(text, patterns, k + 1)
extract_date_from(text, patterns, k) ==
    IF k > Len(patterns) THEN NoDate
    ELSE DateOrNext(parse_date(Search(patterns[k], text, DateShaped)), text, patterns, k)

extract_date(text, patterns) == extract_date_from(text, patterns, 1)

\* Decimal(amount_str) after the commas are removed, in hundredths;
\* -2 stands for decimal.InvalidOperation.
NoAmount == -1
\* The conversion, were the digits after the decimal point dropped.
ToWholeUnits(m) ==
    CASE m.kind = "amount" -> m.n - (m.n % 100)
      [] m.kind \in {"digits", "card"} -> 100 * m.n
      [] OTHER -> -2
ToDecimal(m) ==
    CASE m.kind = "amount" -> m.n
      [] m.kind \in {"digits", "card"} -> 100 * m.n
      [] OTHER -> -2

\* BaseParser.extract_amount, from pattern k on: NoAmount stands for None.
RECURSIVE extract_amount_from(_, _, _)
AmountOrNext(d, text, patterns, k) ==
    IF d >= 0 THEN d ELSE extract_amount_from(text, patterns, k + 1)
extract_amount_from(text, patterns, k) ==
    IF k > Len(patterns) THEN NoAmount
    ELSE AmountOrNext(ToDecimal(AmountPrefix(Search(patterns[k], text, AmountShaped))),
                      text, patterns, k)

extract_amount(text, patterns) == extract_amount_from(text, patterns, 1)

\* BaseParser.extract_card_last_four, from pattern k on: -1 stands for None.
RECURSIVE extract_card_from(_, _, _)
CardOrNext(c, text, patterns, k) ==
    IF c >= 0 THEN c ELSE extract_card_from(text, patterns, k + 1)
extract_card_from(text, patterns, k) ==
    IF k > Len(patterns) THEN -1
    ELSE CardOrNext(CardSearch(patterns[k], text), text, patterns, k)

extract_card_last_four(text, patterns) == extract_card_from(text, patterns, 1)

\* str.lower() of a literal.
Lower(lit) == [k \in 1..Len(lit) |-> IF lit[k] = "Ctbc" THEN "ctbc" ELSE lit[k]]

\* A keyword, lower-cased, occurs in the lower-cased text.
Occurs(kw, text) == \E i \in 1..Len(text) : IsInfix(kw, Lower(text[i].lit))

\* BankDetector.BANK_INDICATORS, in declaration order.
BANK_INDICATORS ==
    << [bank |-> "CTBC",
        indicators |-> {<<"zhongguoxintuo">>, <<"ctbc">>, <<"zhongxin">>, <<"chinatrust">>}],
       [bank |-> "Cathay United Bank",
        indicators |-> {<<"guotai", "shihua">>, <<"cathay">>, <<"cub">>, <<"shihua">>}],
       [bank |-> "Taishin Bank",
        indicators |-> {<<"taixin">>, <<"taishin">>, <<"tsbank">>, <<"richart">>}] >>

\* BankDetector.detect_bank: "" stands for None. max() returns the first
\* bank, in declaration order, that has the highest score.
BankScore(text, k) ==
    Cardinality({kw \in BANK_INDICATORS[k].indicators : Occurs(kw, text)})

BankOrNone(text, best) ==
    IF BankScore(text, best) > 0 THEN BANK_INDICATORS[best].bank ELSE ""
\* detect_bank, were the last of the banks with the highest score returned.
detect_last_bank(text) ==
    BankOrNone(text, MaxOf({k \in 1..Len(BANK_INDICATORS) :
                               \A j \in 1..Len(BANK_INDICATORS) :
                                   BankScore(text, j) <= BankScore(text, k)}))

detect_bank(text) ==
    BankOrNone(text, MinOf({k \in 1..Len(BANK_INDICATORS) :
                               \A j \in 1..Len(BANK_INDICATORS) :
                                   BankScore(text, j) <= BankScore(text, k)}))

\* ------------------------------------------------------ the bank parsers
L(a) == Pat("label", a, {})

\* parsers/ctbc.py
CTBCParser ==
    [BANK_NAME |-> "CTBC",
     DETECTION_KEYWORDS |->
        {<<"zhongguoxintuo">>, <<"ctbc">>, <<"zhongxin">>, <<"chinatrust">>,
         <<"xinyongka", "zhangdan">>},
     total_amount |->
        << L(<<"benqi", "yingjiao", "jine">>), L(<<"yingjiao", "zong", "jine">>),
           L(<<"total", "amount", "due">>), L(<<"benqi", "yingjiao", "zonge">>) >>,
     minimum_due |->
        << L(<<"zuidi", "yingjiao", "jine">>), L(<<"zuidi", "yingjiao", "kuan">>),
           L(<<"minimum", "payment">>) >>,
     statement_date |->
        << L(<<"zhangdan", "riqi">>), L(<<"jiezhang", "ri">>),
           L(<<"statement", "date">>), Pat("minguo3", <<>>, {}) >>,
     due_date |->
        << L(<<"jiaokuan", "jiezhi", "ri">>), L(<<"jiaokuan", "qixian">>),
           L(<<"zuihou", "jiaokuan", "ri">>), L(<<"payment", "due", "date">>),
           L(<<"jiaokuan", "jiezhi">>) >>,
     CARD_PATTERNS |->
        << L(<<"kahao", "mo", "sima">>), Pat("lazy", <<"kahao">>, {}),
           L(<<"****">>), L(<<"mo", "sima">>) >>,
     taiwan_date |-> TRUE,
     due_offset |-> 20]

\* parsers/cathay.py
CathayUnitedParser ==
    [BANK_NAME |-> "Cathay United Bank",
     DETECTION_KEYWORDS |->
        {<<"guotai", "shihua">>, <<"cathay">>, <<"cub">>, <<"shihua">>,
         <<"cathay", "united">>},
     total_amount |->
        << L(<<"benqi", "yingjiao", "jine">>), L(<<"benqi", "yingjiao", "zonge">>),
           L(<<"yingjiao", "zong", "jine">>), L(<<"benqi", "jiaokuan", "zonge">>),
           L(<<"jiaokuan", "zonge">>) >>,
     minimum_due |->
        << L(<<"zuidi", "yingjiao", "jine">>), L(<<"zuidi", "yingjiao", "kuanxiang">>),
           L(<<"zuidi", "jiaokuan", "jine">>) >>,
     statement_date |->
        << L(<<"jiezhang", "ri">>), L(<<"zhangdan", "riqi">>), L(<<"jiezhang", "riqi">>),
           Pat("then", <<"jiezhang">>, {}), L(<<"zhangdan", "jiesuan", "ri">>) >>,
     due_date |->
        << L(<<"jiaokuan", "jiezhi", "ri">>), L(<<"zuihou", "jiaokuan", "ri">>),
           L(<<"jiaokuan", "qixian">>), L(<<"daoqi", "ri">>),
           L(<<"jiaokuan", "jiezhi", "qixian">>) >>,
     CARD_PATTERNS |->
        << L(<<"kahao", "mo", "sima">>), Pat("greedy", <<"kahao">>, {}),
           L(<<"xinyongka", "mo", "sima">>), L(<<"****">>), L(<<"weihao">>) >>,
     taiwan_date |-> FALSE,
     due_offset |-> 15]

\* parsers/taishin.py
TaishinParser ==
    [BANK_NAME |-> "Taishin Bank",
     DETECTION_KEYWORDS |->
        {<<"taixin">>, <<"taishin">>, <<"tsbank">>, <<"richart">>,
         <<"taixin", "yinhang">>},
     total_amount |->
        << L(<<"benqi", "yingjiao", "zong", "jine">>), L(<<"benqi", "yingjiao", "jine">>),
           L(<<"yingjiao", "zonge">>), L(<<"jiaokuan", "zonge">>),
           L(<<"benqi", "zong", "yingjiao", "jine">>) >>,
     minimum_due |->
        << L(<<"zuidi", "yingjiao", "jine">>), L(<<"zuidi", "yingjiao", "kuan">>),
           L(<<"zuidi", "jiaokuan", "e">>) >>,
     statement_date |->
        << L(<<"jiezhang", "ri">>), L(<<"zhangdan", "riqi">>), L(<<"jiezhang", "riqi">>),
           Pat("then", <<"jiezhang">>, {}), L(<<"zhangdan", "jiesuan", "ri">>) >>,
     due_date |->
        << L(<<"jiaokuan", "jiezhi", "ri">>), L(<<"zuihou", "jiaokuan", "ri">>),
           L(<<"jiaokuan", "qixian">>), L(<<"jiaokuan", "jiezhi", "qixian">>),
           L(<<"zuihou", "jiaokuan", "qixian">>) >>,
     CARD_PATTERNS |->
        << L(<<"kahao", "mo", "sima">>), L(<<"xinyongka", "mo", "sima">>),
           Pat("greedy", <<"kahao">>, {}), L(<<"****">>), L(<<"weihao">>),
           L(<<"kapian", "mo", "sima">>) >>,
     taiwan_date |-> FALSE,
     due_offset |-> 20]

\* can_parse, were the text compared as it is written, not lower-cased.
can_parse_as_written(parser, text) ==
    \E kw \in parser.DETECTION_KEYWORDS :
        \E i \in 1..Len(text) : IsInfix(kw, text[i].lit)

\* can_parse of a bank parser: a detection keyword occurs in the text.
can_parse(parser, text) == \E kw \in parser.DETECTION_KEYWORDS : Occurs(kw, text)

\* CTBCParser._parse_taiwan_date: NoDate stands for None.
TaiwanDate(v) ==
    IF v # NoMatch /\ ValidDate(v.y + 1911, v.m, v.d)
    THEN MkDate(v.y + 1911, v.m, v.d)
    ELSE NoDate
parse_taiwan_date(text) ==
    TaiwanDate(FirstVal(text, {i \in 1..Len(text) :
                                  /\ IsSuffix(<<"minguo">>, text[i].lit)
                                  /\ text[i].val.kind = "minguo"}))

\* ParsedBill (parsers/base.py). Amounts are in hundredths, minimum_due is
\* NoAmount when None, confidence_score is in hundredths, card_last_four is
\* the number its four digits write.
MkBill(bank, card, sdate, smonth, ddate, total, minimum, conf, fields, raw) ==
    [bank_name |-> bank, card_last_four |-> card, statement_date |-> sdate,
     statement_month |-> smonth, due_date |-> ddate, total_amount_due |-> total,
     minimum_due |-> minimum, currency |-> "TWD", confidence_score |-> conf,
     extracted_fields |-> fields, raw_text |-> raw]
NoBill == MkBill("", 0, NoDate, [year |-> <<>>, month |-> <<>>], NoDate, 0, NoAmount, 0,
                 <<>>, <<>>)

\* What a call returns: a ParsedBill, or the exception it raises.
Returned(bill) == [ok |-> TRUE, error |-> "", bill |-> bill]
Raised(error) == [ok |-> FALSE, error |-> error, bill |-> NoBill]

Clamp(x) == IF x < 0 THEN 0 ELSE IF x > 100 THEN 100 ELSE x
Opt(cond, field) == IF cond THEN <<field>> ELSE <<>>

\* The score, were nothing subtracted for a missing total amount.
BankConfidenceNoPenalty(bill) ==
    Clamp(10
          + (IF bill.card_last_four # 0 THEN 10 ELSE 0)
          + (IF bill.statement_date # NoDate THEN 15 ELSE 0)
          + (IF bill.due_date # NoDate THEN 20 ELSE 0)
          + (IF bill.total_amount_due > 0 THEN 30 ELSE 0)
          + (IF bill.minimum_due > 0 THEN 15 ELSE 0))

\* The score, were it returned as a percentage.
BankConfidenceInPercent(bill) ==
    100 * Clamp(10
                + (IF bill.card_last_four # 0 THEN 10 ELSE 0)
                + (IF bill.statement_date # NoDate THEN 15 ELSE 0)
                + (IF bill.due_date # NoDate THEN 20 ELSE 0)
                + (IF bill.total_amount_due > 0 THEN 30 ELSE -20)
                + (IF bill.minimum_due > 0 THEN 15 ELSE 0))

\* calculate_confidence of CTBCParser, CathayUnitedParser and TaishinParser
\* (the three bodies are the same), in hundredths.
BankConfidence(bill) ==
    Clamp(10
          + (IF bill.card_last_four # 0 THEN 10 ELSE 0)
          + (IF bill.statement_date # NoDate THEN 15 ELSE 0)
          + (IF bill.due_date # NoDate THEN 20 ELSE 0)
          + (IF bill.total_amount_due > 0 THEN 30 ELSE -20)
          + (IF bill.minimum_due > 0 THEN 15 ELSE 0))

\* parse of CTBCParser, CathayUnitedParser and TaishinParser, from its last
\* step back to its first. The result: the bill with its confidence and its
\* extracted fields; computing the due date raised OverflowError when it is
\* NoDate.
BankResult(bill) ==
    IF bill.due_date = NoDate THEN Raised("OverflowError")
    ELSE Returned([bill EXCEPT
            !.confidence_score = BankConfidence(bill),
            !.extracted_fields =
                Opt(bill.card_last_four # 0, "card_last_four")
                \o Opt(bill.statement_date # NoDate, "statement_date")
                \o Opt(bill.due_date # NoDate, "due_date")
                \o Opt(bill.total_amount_due > 0, "total_amount_due")
                \o Opt(bill.minimum_due > 0, "minimum_due")])

\* The defaults: card "0000", today's date, the statement date plus the
\* parser's offset, the amount 0.
DueOrDefault(dd1, statement_date, offset) ==
    IF dd1 = NoDate THEN AddDays(statement_date, offset) ELSE dd1

BankBill(parser, text, card_last_four, statement_date, dd1, total_amount, minimum_due) ==
    BankResult(MkBill(parser.BANK_NAME, card_last_four, statement_date,
                      StrftimeYm(statement_date),
                      DueOrDefault(dd1, statement_date, parser.due_offset),
                      total_amount, minimum_due, 0, <<>>, Truncate(text, 1000)))

BankDefaults(parser, text, card, sd1, dd1, tw, ta, minimum_due) ==
    BankBill(parser, text,
             IF card >= 0 THEN card ELSE 0,
             IF sd1 # NoDate THEN sd1 ELSE IF tw # NoDate THEN tw ELSE Today,
             dd1,
             IF ta <= 0 THEN 0 ELSE ta,
             minimum_due)

\* The extraction, from the cleaned text.
BankExtract(parser, text) ==
    BankDefaults(parser, text,
                 extract_card_last_four(text, parser.CARD_PATTERNS),
                 extract_date(text, parser.statement_date),
                 extract_date(text, parser.due_date),
                 IF parser.taiwan_date THEN parse_taiwan_date(text) ELSE NoDate,
                 extract_amount(text, parser.total_amount),
                 extract_amount(text, parser.minimum_due))

BankParse(parser, raw) == BankExtract(parser, clean_text(raw))

\* ---------------------------------------------------- parsers/generic.py
GenericParser ==
    [BANK_NAME |-> "Unknown Bank",
     total_amount |->
        << Pat("ab", {"yingjiao", "yingfu", "jiaokuan", "payment", "total", "amount"},
                     {"jine", "amount", "total"}),
           Pat("ab", {"benqi", "dangqi", "this", "current"}, {"jine", "amount"}),
           Pat("dollar", {}, {}),
           Pat("unit", {"yuan", "yuan2", "twd", "nt", "ntd"}, {}) >>,
     minimum_due |->
        << Pat("ab", {"zuidi", "minimum"}, {"jine", "amount", "payment"}),
           Pat("ab", {"zuidi", "minimum"}, {"yingjiao", "payment"}) >>,
     statement_date |->
        << Pat("ab", {"jiezhang", "zhangdan", "statement", "billing", "cutoff"},
                     {"riqi", "date", "ri"}),
           Pat("before", {"jiezhang", "statement"}, {}),
           Pat("label_ym", {}, {<<"zhangdan", "yuefen">>, <<"billing", "month">>}) >>,
     due_date |->
        << Pat("ab", {"jiaokuan", "fukuan", "payment", "due"},
                     {"riqi", "jiezhi", "qixian", "date", "deadline"}),
           Pat("labels", {}, {<<"zuihou", "jiaokuan", "ri">>, <<"payment", "due">>,
                              <<"due", "date">>}),
           Pat("before", {"jiaokuan", "fukuan", "payment"}, {}) >>,
     CARD_PATTERNS |->
        << Pat("amd", {"kahao", "card", "xinyongka"}, {"mo", "wei", "last"}),
           Pat("msima", {"mo", "wei", "last"}, {}),
           L(<<"****">>), L(<<"xxxx">>), L(<<"####">>) >>,
     due_offset |-> 20]

\* GenericParser.calculate_confidence, in hundredths.
GenericConfidence(bill) ==
    LET score == (IF bill.bank_name # "Unknown Bank" THEN 5 ELSE 0)
                 + (IF bill.card_last_four # 0 THEN 5 ELSE 0)
                 + (IF bill.statement_date # NoDate THEN 10 ELSE 0)
                 + (IF bill.due_date # NoDate THEN 15 ELSE 0)
                 + (IF bill.total_amount_due > 0 THEN 25 ELSE 0)
                 + (IF bill.minimum_due > 0 THEN 10 ELSE 0)
    IN  IF score > 60 THEN 60 ELSE score

\* GenericParser.parse on an instance whose BANK_NAME attribute is bank_name,
\* from its last step back to its first: what the call returns, and the
\* instance's BANK_NAME after it.
GenericFlagged(bill) ==
    [bill EXCEPT !.extracted_fields =
        IF bill.confidence_score < 50 THEN <<"needs_review">> ELSE <<>>]

GenericCapped(score) == IF score > 60 THEN 60 ELSE score

\* The result, were the sum of the weights stored as it is.
GenericResultUncapped(bill) ==
    [BANK_NAME |-> bill.bank_name,
     result |-> IF bill.due_date = NoDate THEN Raised("OverflowError")
                ELSE Returned(GenericFlagged(
                        [bill EXCEPT !.confidence_score =
                            (IF bill.bank_name # "Unknown Bank" THEN 5 ELSE 0)
                            + (IF bill.card_last_four # 0 THEN 5 ELSE 0)
                            + 10 + 15
                            + (IF bill.total_amount_due > 0 THEN 25 ELSE 0)
                            + (IF bill.minimum_due > 0 THEN 10 ELSE 0)]))]

GenericResult(bill) ==
    [BANK_NAME |-> bill.bank_name,
     result |-> IF bill.due_date = NoDate THEN Raised("OverflowError")
                ELSE Returned(GenericFlagged(
                        [bill EXCEPT !.confidence_score =
                            GenericCapped(GenericConfidence(bill))]))]

GenericBill(BANK_NAME, text, card_last_four, statement_date, dd1, total_amount,
            minimum_due) ==
    GenericResult(MkBill(BANK_NAME, card_last_four, statement_date,
                         StrftimeYm(statement_date),
                         DueOrDefault(dd1, statement_date, GenericParser.due_offset),
                         total_amount, minimum_due, 0, <<>>, Truncate(text, 500)))

GenericDefaults(bank_name, text, detected_bank, card, sd1, dd1, ta, minimum_due) ==
    GenericBill(IF detected_bank # "" THEN detected_bank ELSE bank_name,
                text,
                IF card >= 0 THEN card ELSE 0,
                IF sd1 # NoDate THEN sd1 ELSE Today,
                dd1,
                IF ta <= 0 THEN 0 ELSE ta,
                minimum_due)

GenericExtract(bank_name, text) ==
    GenericDefaults(bank_name, text,
                    detect_bank(text),
                    extract_card_last_four(text, GenericParser.CARD_PATTERNS),
                    extract_date(text, GenericParser.statement_date),
                    extract_date(text, GenericParser.due_date),
                    extract_amount(text, GenericParser.total_amount),
                    extract_amount(text, GenericParser.minimum_due))

GenericParse(bank_name, raw) == GenericExtract(bank_name, clean_text(raw))

\* ------------------------------------------ tasks/parse_statement.py: parse
\* The registry of the task module, were it to list Cathay before CTBC.
PARSERS_CathayFirst == <<CathayUnitedParser, CTBCParser, TaishinParser>>

\* PARSERS of the task module: the three bank-parser instances, in order.
PARSERS == <<CTBCParser, CathayUnitedParser, TaishinParser>>

\* parse_bill_data(text, card_id): the first of PARSERS that can parse the
\* text, or else a new GenericParser.
FirstAble(text, able) ==
    IF able # {} THEN BankParse(PARSERS[MinOf(able)], text)
    ELSE GenericParse(GenericParser.BANK_NAME, text).result

parse_bill_data(text) ==
    FirstAble(text, {k \in 1..Len(PARSERS) : can_parse(PARSERS[k], text)})

\* ------------------------------------------------- what a worker is given
\* The declared media types of the artifacts (SourceArtifact.mime_type).
MimeTypes == {"application/pdf", "image/png", "application/octet-stream"}

\* The texts the extraction services yield.
EmptyText == <<>>
LongText == <<Tok(<<"zhongguoxintuo">>, NoVal), Tok(<<"mingxi120">>, NoVal)>>
ShortText == <<Tok(<<"yuan">>, NoVal)>>
OcrText == <<Tok(<<"zhangdan", "riqi">>, DateVal(9999, 12, 31, "/"))>>

\* A stored file, as the extraction services see it:
\*   pdf     : what PDFExtractionService.extract_text returns for it
\*   scanned : what OCRService.is_scanned_pdf returns for it
\*   ocr     : what OCRService.extract_from_pdf / extract_from_image returns
ServiceOk(text) == [success |-> TRUE, text |-> text, error |-> ""]
ServiceFailed(error) == [success |-> FALSE, text |-> EmptyText, error |-> error]
MkFile(pdf, scanned, ocr) == [pdf |-> pdf, scanned |-> scanned, ocr |-> ocr]
NoFile == MkFile(ServiceFailed("no file"), FALSE, ServiceFailed("no file"))

\* is_scanned_pdf reads the same text layer: it answers True when the file
\* cannot be opened or holds fewer than 100 characters.
Files ==
    {MkFile(pdf, scanned, ocr) :
        pdf \in {ServiceFailed("pdf error"), ServiceOk(EmptyText), ServiceOk(ShortText),
                 ServiceOk(LongText)},
        scanned \in BOOLEAN,
        ocr \in {ServiceFailed("ocr error"), ServiceOk(OcrText)}}

IsScannedPdf(pdf) == ~pdf.success \/ TextLen(pdf.text) < MinTextLength
StoredFiles == {f \in Files : f.scanned = IsScannedPdf(f.pdf)}

\* ---------------------------------------------------------------- the state
VARIABLES
    artifacts,   \* the source_artifacts rows, as committed
    storage,     \* the stored file of each artifact
    bills,       \* the bills rows, as committed
    queue,       \* the task messages the broker holds
    exec,        \* per worker: the execution of parse_statement_task it runs
    results,     \* the result backend: how each delivered task ended
    deliveries,  \* how many times each artifact's task was dispatched
    executions,  \* history: the executions begun, per delivered task
    response,    \* the last answer of get_upload_status
    ptext,       \* the text handed to parse_bill_data
    pout,        \* what the call returned or raised; NotCalled before the call
    pinst,       \* the parser instance at hand: its class and its BANK_NAME
    proc         \* a worker process: its parser objects and the parse_bill_data
                 \* calls that run in it

vars == <<artifacts, storage, bills, queue, exec, results, deliveries,
          executions, response, ptext, pout, pinst, proc>>
pipeline == <<artifacts, storage, bills, queue, exec, results, deliveries,
              executions, response>>

NotCalled == [ok |-> FALSE, error |-> "not called", bill |-> NoBill]

\* A parser object: the place of its class in the registry of
\* parsers/__init__.py (0: no object), its BANK_NAME attribute, the parse
\* calls made on it, and whether get_parser_for_statement returned it for
\* the text at hand.
MkInstance(cls, bank_name, calls, selected) ==
    [cls |-> cls, BANK_NAME |-> bank_name, calls |-> calls, selected |-> selected]
NoInstance == MkInstance(0, "", 0, FALSE)

\* No worker process is looked at.
NoProcess == [PARSERS |-> <<>>, last |-> 0, calls |-> <<>>]

\* models/models.py: the attributes of a SourceArtifact row and of a
\* ParsedBill (parsers/base.py).
SourceArtifactAttrs ==
    {"id", "user_id", "original_filename", "storage_key", "mime_type",
     "file_size_bytes", "processing_status", "processing_error",
     "checksum_sha256", "uploaded_at", "delete_after", "deleted_at", "bill"}
ParsedBillAttrs == DOMAIN NoBill

MkArtifact(exists, mime, status, error) ==
    [exists |-> exists, mime_type |-> mime, processing_status |-> status,
     processing_error |-> error]

\* A task message: the artifact, which dispatch of it, request.retries, and
\* the seconds left before the broker hands it to a worker.
MkMessage(a, k, retries, eta) ==
    [artifact_id |-> a, delivery |-> k, retries |-> retries, eta |-> eta]

Deliveries == 1..MaxDeliveries
TaskIds == Artifacts \X Deliveries

Idle == [pc |-> "idle", artifact_id |-> 0, delivery |-> 0, retries |-> 0,
         elapsed |-> 0, file |-> NoFile, text |-> EmptyText, ocr |-> FALSE]

\* How a task ended.
NoResult == [status |-> "none", message |-> "", bill_id |-> 0, confidence |-> 0,
             requires_review |-> FALSE]
RetryResult(e) == [NoResult EXCEPT !.status = "retry", !.message = e]
ErrorResult(e) == [NoResult EXCEPT !.status = "error", !.message = e]
FailureResult(e) == [NoResult EXCEPT !.status = "failure", !.message = e]
KilledResult == [NoResult EXCEPT !.status = "killed", !.message = "TimeLimitExceeded"]
SuccessResult(bill) ==
    [status |-> "success", message |-> "", bill_id |-> bill.id,
     confidence |-> bill.extraction_confidence,
     requires_review |-> bill.requires_review]

NoResponse == [found |-> FALSE, artifact_id |-> 0, status |-> "", progress_percent |-> -1,
               error |-> ""]

InitPipeline ==
    /\ artifacts \in [Artifacts -> {MkArtifact(e, m, "pending", "") :
                                       e \in BOOLEAN, m \in MimeTypes}]
    /\ storage \in [Artifacts -> StoredFiles]
    /\ bills = {}
    /\ queue = {MkMessage(a, 1, 0, 0) : a \in Artifacts}
    /\ exec = [w \in Workers |-> Idle]
    /\ results = [t \in TaskIds |-> NoResult]
    /\ deliveries = [a \in Artifacts |-> 1]
    /\ executions = [t \in TaskIds |-> 0]
    /\ response = NoResponse

Init ==
    /\ InitPipeline
    /\ ptext = EmptyText
    /\ pout = NotCalled
    /\ pinst = NoInstance
    /\ proc = NoProcess

\* --------------------------------- tasks/parse_statement.py: extraction
\* extract_from_pdf, were it to return the text layer whatever its length.
extract_text_layer(file) == ServiceOk(file.pdf.text)

\* extract_from_pdf(file_content): the text it returns (it raises nothing).
extract_from_pdf(file) ==
    IF file.pdf.success /\ TextLen(file.pdf.text) > MinTextLength
    THEN ServiceOk(file.pdf.text)
    ELSE IF file.scanned /\ file.ocr.success
         THEN ServiceOk(file.ocr.text)
         ELSE ServiceOk(file.pdf.text)

\* Lines 146-149: extract_from_pdf goes on to the OCR service
\* (get_ocr_service and is_scanned_pdf) when it has not returned the text
\* layer.
pdf_uses_ocr(file) == ~(file.pdf.success /\ TextLen(file.pdf.text) > MinTextLength)

\* extract_from_image(file_content): the text, or the exception it raises.
extract_from_image(file) ==
    IF file.ocr.success THEN ServiceOk(file.ocr.text)
    ELSE ServiceFailed("OCR failed: " \o file.ocr.error)

IsPdf(mime) == mime = "application/pdf"
IsImage(mime) == mime \in {"image/png"}

\* Lines 68-73: whether the extraction calls the OCR service.
UsesOcr(mime, file) == IF IsPdf(mime) THEN pdf_uses_ocr(file) ELSE IsImage(mime)

\* Lines 68-73: the text of the file, or the exception raised.
ExtractText(mime, file) ==
    IF IsPdf(mime) THEN extract_from_pdf(file)
    ELSE IF IsImage(mime) THEN extract_from_image(file)
    ELSE ServiceFailed("Unsupported file type: " \o mime)

\* ------------------------------------- tasks/parse_statement.py: the task
\* Line 132: the handler schedules a retry.
ShouldRetryOnceMore(retries) == retries <= RetryBudget
ShouldRetry(retries) == retries < RetryBudget

\* The handler, were it to put the artifact back to 'pending' for the retry.
HandlerResetsToPending(w, e, written) ==
    /\ artifacts' = [artifacts EXCEPT ![exec[w].artifact_id] =
                        MkArtifact(TRUE, @.mime_type,
                                   IF ShouldRetry(exec[w].retries) THEN "pending"
                                   ELSE "failed", e)]
    /\ queue' = IF ShouldRetry(exec[w].retries)
                THEN queue \cup {MkMessage(exec[w].artifact_id, exec[w].delivery,
                                           exec[w].retries + 1, RetryCountdown)}
                ELSE queue
    /\ results' = [results EXCEPT ![<<exec[w].artifact_id, exec[w].delivery>>] =
                      IF ShouldRetry(exec[w].retries) THEN RetryResult(e)
                      ELSE ErrorResult(e)]
    /\ exec' = [exec EXCEPT ![w] = Idle]
    /\ UNCHANGED <<storage, bills, deliveries, executions, response, ptext, pout, pinst, proc>>

\* The except block, were the work of the failed session committed with a
\* Bill pending in it instead of rolled back.
HandlerKeepsBill(w, e, written) ==
    /\ bills' = bills \cup {[id |-> Cardinality(bills) + 1,
                            source_artifact_id |-> exec[w].artifact_id]}
    /\ artifacts' = [artifacts EXCEPT ![exec[w].artifact_id] =
                        MkArtifact(TRUE, @.mime_type, "failed", e)]
    /\ queue' = IF ShouldRetry(exec[w].retries)
                THEN queue \cup {MkMessage(exec[w].artifact_id, exec[w].delivery,
                                           exec[w].retries + 1, RetryCountdown)}
                ELSE queue
    /\ results' = [results EXCEPT ![<<exec[w].artifact_id, exec[w].delivery>>] =
                      IF ShouldRetry(exec[w].retries) THEN RetryResult(e)
                      ELSE ErrorResult(e)]
    /\ exec' = [exec EXCEPT ![w] = Idle]
    /\ UNCHANGED <<storage, deliveries, executions, response, ptext, pout, pinst, proc>>

\* The except block (lines 115-136) of the execution of worker w that raised
\* e; written tells whether the handler's own status write goes through (an
\* error of it is swallowed).
Handler(w, e, written) ==
    LET a == exec[w].artifact_id
        t == <<a, exec[w].delivery>>
    IN  /\ artifacts' =
             IF written /\ artifacts[a].exists
             THEN [artifacts EXCEPT ![a] = MkArtifact(TRUE, @.mime_type, "failed", e)]
             ELSE artifacts
        /\ IF ShouldRetry(exec[w].retries)
           THEN IF exec[w].retries + 1 > MaxRetries
                THEN \* self.retry raises instead of scheduling (max_retries)
                     /\ queue' = queue
                     /\ results' = [results EXCEPT ![t] = FailureResult(e)]
                ELSE /\ queue' = queue \cup {MkMessage(a, exec[w].delivery,
                                                       exec[w].retries + 1, RetryCountdown)}
                     /\ results' = [results EXCEPT ![t] = RetryResult(e)]
           ELSE /\ queue' = queue
                /\ results' = [results EXCEPT ![t] = ErrorResult(e)]
        /\ exec' = [exec EXCEPT ![w] = Idle]
        /\ UNCHANGED <<storage, bills, deliveries, executions, response, ptext, pout, pinst, proc>>

\* The execution of worker w is at the step pc, and no time limit has struck.
At(w, pc) == exec[w].pc = pc /\ exec[w].elapsed < TaskSoftTimeLimit

\* The start of an execution, were 'processing' left uncommitted.
BeginWithoutCommit(w) ==
    \E m \in queue :
        /\ exec[w].pc = "idle"
        /\ m.eta = 0
        /\ artifacts[m.artifact_id].exists
        /\ queue' = queue \ {m}
        /\ executions' = [executions EXCEPT ![<<m.artifact_id, m.delivery>>] = @ + 1]
        /\ exec' = [exec EXCEPT ![w] =
                       [Idle EXCEPT !.pc = "download", !.artifact_id = m.artifact_id,
                                    !.delivery = m.delivery, !.retries = m.retries]]
        /\ UNCHANGED <<artifacts, storage, bills, results, deliveries, response, ptext, pout, pinst, proc>>

\* Lines 43-58: a worker takes a message that is due, looks the artifact up
\* and commits 'processing'.
Begin(w) ==
    \E m \in queue :
        LET a == m.artifact_id
            t == <<a, m.delivery>>
        IN  /\ exec[w].pc = "idle"
            /\ m.eta = 0
            /\ queue' = queue \ {m}
            /\ executions' = [executions EXCEPT ![t] = @ + 1]
            /\ IF ~artifacts[a].exists
               THEN /\ results' = [results EXCEPT ![t] = ErrorResult("Artifact not found")]
                    /\ UNCHANGED <<artifacts, exec>>
               ELSE /\ artifacts' = [artifacts EXCEPT ![a].processing_status = "processing"]
                    /\ exec' = [exec EXCEPT ![w] =
                                   [Idle EXCEPT !.pc = "download", !.artifact_id = a,
                                                !.delivery = m.delivery,
                                                !.retries = m.retries]]
                    /\ UNCHANGED results
            /\ UNCHANGED <<storage, bills, deliveries, response, ptext, pout, pinst, proc>>

\* Lines 61-65: the download.
Download(w, written) ==
    /\ At(w, "download")
    /\ \E downloaded \in BOOLEAN :
        IF downloaded
        THEN /\ exec' = [exec EXCEPT ![w].pc = "extract",
                                     ![w].file = storage[exec[w].artifact_id]]
             /\ UNCHANGED <<artifacts, storage, bills, queue, results, deliveries,
                            executions, response, ptext, pout, pinst, proc>>
        ELSE Handler(w, "Failed to download file from storage", written)

\* Lines 67-73: the extraction.
Extract(w, written) ==
    /\ At(w, "extract")
    /\ LET r == ExtractText(artifacts[exec[w].artifact_id].mime_type, exec[w].file)
       IN  IF r.success
           THEN /\ exec' = [exec EXCEPT ![w].pc = "parse", ![w].text = r.text,
                                        ![w].ocr = UsesOcr(
                                            artifacts[exec[w].artifact_id].mime_type,
                                            exec[w].file)]
                /\ UNCHANGED <<artifacts, storage, bills, queue, results, deliveries,
                               executions, response, ptext, pout, pinst, proc>>
           ELSE Handler(w, r.error, written)

\* A bills row (models/models.py, Bill) built by lines 79-93.
MkBillRow(id, a, parsed) ==
    [id |-> id, source_artifact_id |-> a,
     statement_date |-> parsed.statement_date,
     statement_month |-> StrftimeYm(parsed.statement_date),
     due_date |-> parsed.due_date,
     total_amount_due |-> parsed.total_amount_due,
     minimum_due |-> parsed.minimum_due,
     currency |-> parsed.currency,
     extraction_confidence |-> parsed.confidence_score,
     requires_review |-> parsed.confidence_score < ConfidenceThreshold,
     status |-> "pending_review"]

\* Lines 75-113: parse the text, insert the Bill, commit it together with
\* 'completed', and return. Reading an attribute the object does not have
\* raises AttributeError; a second Bill for the artifact breaks the unique
\* constraint on bills.source_artifact_id and the commit raises.
Commit(w, a, bill, written) ==
    IF \E b \in bills : b.source_artifact_id = a
    THEN Handler(w, "IntegrityError", written)
    ELSE /\ bills' = bills \cup {bill}
         /\ artifacts' = [artifacts EXCEPT ![a].processing_status = "completed"]
         /\ results' = [results EXCEPT ![<<a, exec[w].delivery>>] = SuccessResult(bill)]
         /\ exec' = [exec EXCEPT ![w] = Idle]
         /\ UNCHANGED <<storage, queue, deliveries, executions, response, ptext, pout, pinst, proc>>

Parsed(w, parsed, written) ==
    IF ~parsed.ok
    THEN Handler(w, parsed.error, written)
    ELSE IF "raw_fields" \notin ParsedBillAttrs
    THEN Handler(w, "'ParsedBill' object has no attribute 'raw_fields'", written)
    ELSE Commit(w, exec[w].artifact_id,
                MkBillRow(Cardinality(bills) + 1, exec[w].artifact_id, parsed.bill),
                written)

Parse(w, written) ==
    /\ At(w, "parse")
    /\ IF "card_id" \notin SourceArtifactAttrs
       THEN Handler(w, "'SourceArtifact' object has no attribute 'card_id'", written)
       ELSE Parsed(w, parse_bill_data(exec[w].text), written)

\* worker.py, task_soft_time_limit: SoftTimeLimitExceeded is raised inside
\* the task once the execution has run that long, and the task's own
\* "except Exception" catches it.
SoftTimeLimit(w, written) ==
    /\ exec[w].pc \in {"download", "extract", "parse"}
    /\ exec[w].elapsed >= TaskSoftTimeLimit
    /\ exec[w].elapsed < TaskTimeLimit
    /\ Handler(w, "SoftTimeLimitExceeded()", written)

\* The hard limit, were the killed execution's artifact marked 'failed'.
HardTimeLimitMarksFailed(w) ==
    /\ exec[w].pc # "idle"
    /\ exec[w].elapsed >= TaskTimeLimit
    /\ exec' = [exec EXCEPT ![w] = Idle]
    /\ artifacts' = [artifacts EXCEPT ![exec[w].artifact_id].processing_status = "failed"]
    /\ results' = [results EXCEPT ![<<exec[w].artifact_id, exec[w].delivery>>] = KilledResult]
    /\ UNCHANGED <<storage, bills, queue, deliveries, executions, response, ptext, pout, pinst, proc>>

\* worker.py, task_time_limit: the process that runs the execution is
\* killed; nothing of the task runs any more.
HardTimeLimit(w) ==
    /\ exec[w].pc # "idle"
    /\ exec[w].elapsed >= TaskTimeLimit
    /\ exec' = [exec EXCEPT ![w] = Idle]
    /\ results' = [results EXCEPT ![<<exec[w].artifact_id, exec[w].delivery>>] = KilledResult]
    /\ UNCHANGED <<artifacts, storage, bills, queue, deliveries, executions,
                   response, ptext, pout, pinst, proc>>

\* TickSeconds pass: for the executions that run, and for the messages that
\* wait for their countdown.
Tick ==
    /\ \/ \E w \in Workers : exec[w].pc # "idle"
       \/ \E m \in queue : m.eta > 0
    /\ \A w \in Workers : exec[w].pc # "idle" => exec[w].elapsed < TaskTimeLimit
    /\ exec' = [w \in Workers |->
                   IF exec[w].pc = "idle" THEN exec[w]
                   ELSE [exec[w] EXCEPT !.elapsed = @ + TickSeconds]]
    /\ queue' = {[m EXCEPT !.eta = IF @ > TickSeconds THEN @ - TickSeconds ELSE 0] :
                    m \in queue}
    /\ UNCHANGED <<artifacts, storage, bills, results, deliveries, executions,
                   response, ptext, pout, pinst, proc>>

\* api/v1/endpoints/uploads.py, get_upload_status.
get_upload_status(a) ==
    IF ~artifacts[a].exists THEN NoResponse
    ELSE [found |-> TRUE,
          artifact_id |-> a,
          status |-> artifacts[a].processing_status,
          progress_percent |->
              CASE artifacts[a].processing_status = "pending" -> 0
                [] artifacts[a].processing_status = "processing" -> 50
                [] artifacts[a].processing_status = "completed" -> 100
                [] OTHER -> -1,
          error |-> artifacts[a].processing_error]

StatusQuery(a) ==
    /\ response' = get_upload_status(a)
    /\ UNCHANGED <<artifacts, storage, bills, queue, exec, results, deliveries,
                   executions, ptext, pout, pinst, proc>>

\* The database takes every write of the failure handler.
Next ==
    \/ \E w \in Workers : Begin(w)
    \/ \E w \in Workers : Download(w, TRUE)
    \/ \E w \in Workers : Extract(w, TRUE)
    \/ \E w \in Workers : Parse(w, TRUE)
    \/ \E w \in Workers : SoftTimeLimit(w, TRUE)
    \/ \E w \in Workers : HardTimeLimit(w)
    \/ Tick
    \/ \E a \in Artifacts : StatusQuery(a)

Spec == Init /\ [][Next]_vars

\* The database may refuse the status write of the failure handler; the
\* handler swallows that error (lines 119-129).
Run(w) ==
    \/ \E written \in BOOLEAN : Download(w, written)
    \/ \E written \in BOOLEAN : Extract(w, written)
    \/ \E written \in BOOLEAN : Parse(w, written)
    \/ \E written \in BOOLEAN : SoftTimeLimit(w, written)
    \/ HardTimeLimit(w)

NextWrites ==
    \/ \E w \in Workers : Begin(w)
    \/ \E w \in Workers : Run(w)
    \/ Tick
    \/ \E a \in Artifacts : StatusQuery(a)

\* A worker process that runs an execution goes on with it, or the pool
\* stops it at a time limit.
SpecWrites == Init /\ [][NextWrites]_vars /\ \A w \in Workers : WF_vars(Run(w))

\* The task of artifact a is dispatched once more, while or after an earlier
\* dispatch of it runs.
Deliver(a) ==
    /\ deliveries[a] < MaxDeliveries
    /\ deliveries' = [deliveries EXCEPT ![a] = @ + 1]
    /\ queue' = queue \cup {MkMessage(a, deliveries[a] + 1, 0, 0)}
    /\ UNCHANGED <<artifacts, storage, bills, exec, results, executions, response,
                   ptext, pout, pinst, proc>>

NextDeliveries ==
    \/ Next
    \/ \E a \in Artifacts : Deliver(a)

\* Duplicate dispatches are explored for PDF artifacts that exist and whose
\* file is in storage with a text layer.
InitDeliveries ==
    /\ Init
    /\ \A a \in Artifacts :
          /\ artifacts[a].exists
          /\ artifacts[a].mime_type = "application/pdf"
          /\ storage[a].pdf = ServiceOk(LongText)
          /\ storage[a].ocr.success

SpecDeliveries == InitDeliveries /\ [][NextDeliveries]_vars

\* ------------------------------------- parse_bill_data as a pure function
\* No artifact is uploaded and no task is queued: only the parsers run.
QuietPipeline ==
    /\ artifacts = [a \in Artifacts |-> MkArtifact(FALSE, "application/pdf", "pending", "")]
    /\ storage = [a \in Artifacts |-> MkFile(ServiceOk(EmptyText), TRUE, ServiceOk(EmptyText))]
    /\ bills = {}
    /\ queue = {}
    /\ exec = [w \in Workers |-> Idle]
    /\ results = [t \in TaskIds |-> NoResult]
    /\ deliveries = [a \in Artifacts |-> 0]
    /\ executions = [t \in TaskIds |-> 0]
    /\ response = NoResponse

InitParse ==
    /\ QuietPipeline
    /\ ptext \in Texts
    /\ pout = NotCalled
    /\ pinst = NoInstance
    /\ proc = NoProcess

CallParse ==
    /\ pout = NotCalled
    /\ pout' = parse_bill_data(ptext)
    /\ UNCHANGED <<pipeline, ptext, pinst, proc>>

NextParse == CallParse

SpecParse == InitParse /\ [][NextParse]_vars

\* ------------------------------------------------- the parsers as objects
\* parsers/__init__.py, PARSERS: the parser classes in order, the generic
\* one last.
REGISTRY == <<CTBCParser, CathayUnitedParser, TaishinParser, GenericParser>>

IsGeneric(k) == k = Len(REGISTRY)

\* can_parse of an instance of class k: GenericParser.can_parse is True.
CanParse(k, text) == IsGeneric(k) \/ can_parse(REGISTRY[k], text)

\* The selection, were the loop to go on after a match: the last class
\* that can parse the text.
get_last_parser_for_statement(text) ==
    MaxOf({k \in 1..Len(REGISTRY) : CanParse(k, text)})

\* get_parser_for_statement(text): the class of the instance it returns.
get_parser_for_statement(text) ==
    MinOf({k \in 1..Len(REGISTRY) : CanParse(k, text)})

\* parser_class(): a new instance of class k.
New(k) == MkInstance(k, REGISTRY[k].BANK_NAME, 0, FALSE)

\* inst.parse(text): what the call returns and the instance's BANK_NAME
\* after it.
ParseOn(inst, text) ==
    IF IsGeneric(inst.cls) THEN GenericParse(inst.BANK_NAME, text)
    ELSE [BANK_NAME |-> inst.BANK_NAME, result |-> BankParse(REGISTRY[inst.cls], text)]

MaxCalls == 2

\* A parser of any class is constructed, for any text.
InitParsers ==
    /\ QuietPipeline
    /\ ptext \in Texts \cup Statements
    /\ pout = NotCalled
    /\ pinst \in {New(k) : k \in 1..Len(REGISTRY)}
    /\ proc = NoProcess

\* The parser for the text is asked of get_parser_for_statement.
GetParser ==
    /\ pout = NotCalled
    /\ pinst.calls = 0
    /\ ~pinst.selected
    /\ pinst' = [New(get_parser_for_statement(ptext)) EXCEPT !.selected = TRUE]
    /\ UNCHANGED <<pipeline, ptext, pout, proc>>

Called(r) ==
    /\ pout' = r.result
    /\ pinst' = [pinst EXCEPT !.BANK_NAME = r.BANK_NAME, !.calls = @ + 1]
    /\ UNCHANGED <<pipeline, ptext, proc>>

\* parse is called on the instance at hand, with the text at hand.
CallParseOn ==
    /\ pout = NotCalled
    /\ pinst.calls < MaxCalls
    /\ Called(ParseOn(pinst, ptext))

\* The same instance is given another text.
NextText(t) ==
    /\ pout # NotCalled
    /\ pinst.calls < MaxCalls
    /\ ptext' = t
    /\ pout' = NotCalled
    /\ pinst' = [pinst EXCEPT !.selected = FALSE]
    /\ UNCHANGED <<pipeline, proc>>

NextParsers ==
    \/ GetParser
    \/ CallParseOn
    \/ \E t \in Texts : NextText(t)

SpecParsers == InitParsers /\ [][NextParsers]_vars

\* ------------------------------------ parse_bill_data in a worker process
\* The texts of the artifacts that one worker process parses, and the number
\* of parse_bill_data calls that run in it, one after another or at the same
\* time.
ProcTextLen == 1
ProcTexts == SeqsUpTo(Vocabulary, ProcTextLen)
NumCalls == 2
Calls == 1..NumCalls

\* A call of parse_bill_data: where it is, its text, the parser it took (its
\* local variable; 0: none yet; 4: a GenericParser of its own), the BANK_NAME
\* of that GenericParser, and what the call returned or raised.
MkCall(pc, text, parser, own, out) ==
    [pc |-> pc, text |-> text, parser |-> parser, own |-> own, out |-> out]

\* The task module is imported: PARSERS holds one instance of each bank
\* parser, shared by every call in the process.
InitProcess ==
    /\ QuietPipeline
    /\ ptext = EmptyText
    /\ pout = NotCalled
    /\ pinst = NoInstance
    /\ proc \in {[PARSERS |-> [k \in 1..Len(PARSERS) |-> PARSERS[k].BANK_NAME],
                  last |-> 0,
                  calls |-> c] :
                    c \in [Calls -> {MkCall("start", t, 0, "", NotCalled) : t \in ProcTexts}]}

\* The parser a call parses with, were the loop variable shared by the calls
\* of the process.
ParserOfProcess(call, last) == last

\* The parser a call parses with: the one it took itself.
ParserOf(call, last) == call.parser

\* Lines 177-185: the loop over PARSERS up to the first parser that can parse
\* the text, or else the construction of a GenericParser.
Took(c, k) ==
    /\ proc' = [proc EXCEPT !.last = k,
                            !.calls[c].pc = "parse",
                            !.calls[c].parser = k,
                            !.calls[c].own = IF k > Len(PARSERS)
                                             THEN GenericParser.BANK_NAME ELSE ""]
    /\ UNCHANGED <<pipeline, ptext, pout, pinst>>

TakeParser(c) ==
    /\ proc.calls[c].pc = "start"
    /\ Took(c, MinOf({k \in 1..Len(PARSERS) : can_parse(PARSERS[k], proc.calls[c].text)}
                     \cup {Len(PARSERS) + 1}))

\* Lines 181 and 186: parser.parse(text), on the shared instance or on the
\* call's own GenericParser.
ParsedBy(c, k, r) ==
    /\ proc' = [proc EXCEPT !.PARSERS = IF k <= Len(PARSERS)
                                        THEN [@ EXCEPT ![k] = r.BANK_NAME] ELSE @,
                            !.calls[c].pc = "done",
                            !.calls[c].own = IF k <= Len(PARSERS) THEN @ ELSE r.BANK_NAME,
                            !.calls[c].out = r.result]
    /\ UNCHANGED <<pipeline, ptext, pout, pinst>>

ParseWith(c, k) ==
    ParsedBy(c, k, ParseOn(MkInstance(k, IF k <= Len(PARSERS) THEN proc.PARSERS[k]
                                         ELSE proc.calls[c].own, 0, FALSE),
                           proc.calls[c].text))

ParseCall(c) ==
    /\ proc.calls[c].pc = "parse"
    /\ ParseWith(c, ParserOf(proc.calls[c], proc.last))

NextProcess ==
    \/ \E c \in Calls : TakeParser(c)
    \/ \E c \in Calls : ParseCall(c)

SpecProcess == InitProcess /\ [][NextProcess]_vars

\* ------------------------------------------------- the bank detector
\* Texts made of the lines that name a bank, and of one that names none.
BankLines ==
    { Tok(<<"zhongguoxintuo">>, NoVal), Tok(<<"Ctbc">>, NoVal),
      Tok(<<"guotai", "shihua">>, NoVal), Tok(<<"taixin">>, NoVal),
      Tok(<<"yuan">>, NoVal) }
BankTextLen == 3

\* A GenericParser is constructed; its parse calls BankDetector.detect_bank
\* on the text (generic.py:70-73) and keeps the answer in BANK_NAME.
InitDetector ==
    /\ QuietPipeline
    /\ ptext \in SeqsUpTo(BankLines, BankTextLen)
    /\ pout = NotCalled
    /\ pinst = New(Len(REGISTRY))
    /\ proc = NoProcess

NextDetector == CallParseOn

SpecDetector == InitDetector /\ [][NextDetector]_vars

\* ================================================================ claims
\* The steps of the execution that worker w runs, told by what they change.
ParseStep(w) == At(w, "parse") /\ exec'[w].pc = "idle"
ExtractStep(w) == At(w, "extract") /\ exec'[w].pc # "extract"
TaskOf(w) == <<exec[w].artifact_id, exec[w].delivery>>

\* C1: when the task runs for an existing artifact whose file downloads, whose
\* media type is PDF or an image and whose extraction and parsing succeed,
\* the execution ends with the artifact 'completed', a Bill that references
\* the artifact created, and the task returning 'success' with that bill's
\* id, confidence and requires_review.
C1_SuccessfulRunCompletes ==
    [][\A w \in Workers :
          (ParseStep(w) /\ parse_bill_data(exec[w].text).ok) =>
              /\ artifacts'[exec[w].artifact_id].processing_status = "completed"
              /\ \E b \in bills' :
                    /\ b.source_artifact_id = exec[w].artifact_id
                    /\ results'[TaskOf(w)] = SuccessResult(b)]_vars

\* Text extraction fails for the file: for a PDF the text layer and the OCR
\* fallback both fail, for an image the OCR fails.
ExtractionFails(mime, file) ==
    \/ IsPdf(mime) /\ ~file.pdf.success /\ ~file.ocr.success
    \/ IsImage(mime) /\ ~file.ocr.success

\* C3: whenever text extraction fails, the execution moves the artifact to
\* 'failed' with processing_error holding the captured error message, and
\* creates no Bill.
C3_ExtractionFailureFails ==
    [][\A w \in Workers :
          (/\ ExtractStep(w)
           /\ ExtractionFails(artifacts[exec[w].artifact_id].mime_type, exec[w].file)) =>
              /\ artifacts'[exec[w].artifact_id].processing_status = "failed"
              /\ artifacts'[exec[w].artifact_id].processing_error \in
                    {exec[w].file.pdf.error, exec[w].file.ocr.error,
                     "OCR failed: " \o exec[w].file.ocr.error}
              /\ bills' = bills]_vars

\* C5: an artifact whose media type is neither PDF nor an image fails at
\* once and is not retried: exactly one execution happens for it.
C5_UnsupportedTypeNotRetried ==
    \A a \in Artifacts :
        (artifacts[a].exists /\ ~IsPdf(artifacts[a].mime_type)
                             /\ ~IsImage(artifacts[a].mime_type)) =>
            /\ \A k \in Deliveries : executions[<<a, k>>] <= 1
            /\ \A m \in queue : m.artifact_id = a => m.retries = 0

\* C9: for every text, parse_bill_data returns a ParsedBill and never raises.
C9_ParseNeverRaises == pout # NotCalled => pout.ok

\* An execution of worker w ends in this step otherwise than by success or
\* by the kill of its process: it has failed.
FailingStep(w) ==
    /\ exec[w].pc # "idle"
    /\ exec'[w].pc = "idle"
    /\ results'[TaskOf(w)].status \notin {"success", "killed"}

C4_State ==
    /\ \A t \in TaskIds : executions[t] <= 4
    /\ \A m \in queue : m.retries <= 3 /\ m.eta <= 60
    /\ \A t \in TaskIds :
          (results[t].status = "error" /\ artifacts[t[1]].exists) =>
              /\ artifacts[t[1]].processing_status = "failed"
              /\ \A m \in queue : <<m.artifact_id, m.delivery>> # t
              /\ \A w \in Workers : exec[w].pc # "idle" => TaskOf(w) # t

C4_Step ==
    \A w \in Workers :
        /\ FailingStep(w) =>
              IF exec[w].retries < 3
              THEN /\ queue' = queue \cup {MkMessage(exec[w].artifact_id, exec[w].delivery,
                                                     exec[w].retries + 1, 60)}
                   /\ results'[TaskOf(w)].status = "retry"
              ELSE /\ queue' = queue
                   /\ results'[TaskOf(w)].status = "error"
                   /\ artifacts'[exec[w].artifact_id].processing_status = "failed"
        /\ (exec[w].pc = "idle" /\ exec'[w].pc # "idle") =>
              \E m \in queue \ queue' : m.eta = 0

Transition(a) ==
    <<artifacts[a].processing_status, artifacts'[a].processing_status>>
Changes(a) == artifacts'[a].processing_status # artifacts[a].processing_status

\* C6, as stated: over first runs, retries and repeated deliveries the status
\* changes only by pending->processing, processing->completed and
\* processing->failed.
C6_OnlyThreeTransitions ==
    [][\A a \in Artifacts :
          Changes(a) => Transition(a) \in {<<"pending", "processing">>,
                                           <<"processing", "completed">>,
                                           <<"processing", "failed">>}]_vars

\* A worker starts an execution for artifact a in this step.
Starts(a) ==
    \E w \in Workers :
        exec[w].pc = "idle" /\ exec'[w].pc = "download" /\ exec'[w].artifact_id = a

\* C6, amended: the status changes only by pending->processing,
\* processing->completed, processing->failed and, when a retry or a further
\* delivery starts its execution, failed->processing.
C6_TransitionsWithRetry ==
    [][\A a \in Artifacts :
          Changes(a) =>
              \/ Transition(a) \in {<<"pending", "processing">>,
                                    <<"processing", "completed">>,
                                    <<"processing", "failed">>}
              \/ Transition(a) = <<"failed", "processing">> /\ Starts(a)]_vars

C6_Witness ==
    \E w \in Workers :
        /\ exec[w].pc = "download"
        /\ exec[w].retries > 0
        /\ exec[w].delivery > 1
        /\ artifacts[exec[w].artifact_id].processing_status = "processing"
        /\ \E k \in Deliveries : results[<<exec[w].artifact_id, k>>].status = "error"

InBody(w) == exec[w].pc \in {"download", "extract", "parse"}

C7_State ==
    \A w \in Workers :
        InBody(w) =>
            /\ artifacts[exec[w].artifact_id].processing_status = "processing"
            /\ get_upload_status(exec[w].artifact_id).status = "processing"

C7_Step ==
    \A a \in Artifacts :
        (response' # response /\ response'.artifact_id = a
            /\ \E w \in Workers : InBody(w) /\ exec[w].artifact_id = a) =>
                response'.status = "processing"

\* C7: every execution that finds the artifact commits 'processing' before
\* the download, the extraction or the parsing begins, so a status query
\* that runs during any of those steps observes 'processing', never
\* 'pending'.
C7_ProcessingCommittedFirst == []C7_State /\ [][C7_Step]_vars

C7_Witness ==
    \E w \in Workers :
        /\ exec[w].pc = "extract"
        /\ exec[w].retries = 0
        /\ response.found
        /\ response.artifact_id = exec[w].artifact_id
        /\ response.status = "processing"

\* An execution of worker w that has run past the soft, or past the hard,
\* time limit ends in this step.
TimeLimitStep(w, limit) ==
    /\ exec[w].pc # "idle"
    /\ exec[w].elapsed >= limit
    /\ exec'[w].pc = "idle"

HasAtom(text, atom) ==
    \E i \in 1..Len(text) : \E k \in 1..Len(text[i].lit) : text[i].lit[k] = atom

\* C11: get_parser_for_statement returns, for every text, the parser of the
\* first bank in the order CTBC, Cathay United, Taishin whose can_parse is
\* true (a keyword of the bank occurs in the text, whatever its case), and
\* the generic parser when none is: the earliest bank wins on a text with
\* keywords of several banks, and a parser is always returned.
C11_FirstBankWins ==
    pinst.selected =>
        /\ pinst.cls \in 1..4
        /\ \A k \in 1..3 :
              (/\ can_parse(REGISTRY[k], ptext)
               /\ \A j \in 1..(k - 1) : ~can_parse(REGISTRY[j], ptext)) => pinst.cls = k
        /\ (\A k \in 1..3 : ~can_parse(REGISTRY[k], ptext)) => pinst.cls = 4
        /\ (HasAtom(ptext, "zhongguoxintuo") \/ HasAtom(ptext, "Ctbc")) => pinst.cls = 1
        /\ (HasAtom(ptext, "taixin") /\ Len(ptext) = 1) => pinst.cls = 3

C11_Witness ==
    /\ pinst.selected
    /\ pinst.cls = 1
    /\ HasAtom(ptext, "Ctbc")
    /\ HasAtom(ptext, "taixin")

\* C12: for every parser and every text, the confidence_score of the
\* ParsedBill that parse returns lies in [0.0, 1.0].
C12_ConfidenceInRange ==
    pout.ok => (pout.bill.confidence_score >= 0 /\ pout.bill.confidence_score <= 100)

C12_Witness ==
    /\ pout.ok
    /\ pinst.cls \in 1..3
    /\ pout.bill.confidence_score = 100

\* C13: for every text, the confidence_score of a ParsedBill that
\* GenericParser.parse returns is at most 0.6, whatever fields were found and
\* whether or not a bank was detected.
C13_GenericCap ==
    (pout.ok /\ pinst.cls = 4) => pout.bill.confidence_score <= 60

C13_Witness ==
    /\ pout.ok
    /\ pinst.cls = 4
    /\ pout.bill.confidence_score = 60
    /\ pout.bill.card_last_four # 0
    /\ pout.bill.total_amount_due > 0
    /\ pout.bill.minimum_due > 0

\* The fields that the result lists as found.
Fields(bill) == {bill.extracted_fields[k] : k \in 1..Len(bill.extracted_fields)}
AllFields == {"card_last_four", "statement_date", "due_date", "total_amount_due",
              "minimum_due"}

\* C14: for each bank parser, in hundredths: a result with all fields found
\* scores 1.00, a result that misses only minimum_due scores 0.85, and a
\* result that misses only the total amount (it is 0) scores 0.50, the 0.30
\* weight being withheld and 0.20 subtracted.
C14_Weights ==
    (pout.ok /\ pinst.cls \in 1..3) =>
        /\ Fields(pout.bill) = AllFields => pout.bill.confidence_score = 100
        /\ Fields(pout.bill) = AllFields \ {"minimum_due"} =>
              pout.bill.confidence_score = 85
        /\ (Fields(pout.bill) = AllFields \ {"total_amount_due"}
                /\ pout.bill.total_amount_due = 0) =>
              pout.bill.confidence_score = 50

C14_Witness ==
    /\ pout.ok
    /\ pinst.cls = 2
    /\ Fields(pout.bill) = AllFields \ {"total_amount_due"}
    /\ pout.bill.total_amount_due = 0
    /\ pout.bill.confidence_score = 50

\* A statement date (a due date) is found in the text by the parser of class k.
StatementDateFound(k, text) ==
    \/ extract_date(clean_text(text), REGISTRY[k].statement_date) # NoDate
    \/ REGISTRY[k].taiwan_date /\ parse_taiwan_date(clean_text(text)) # NoDate
DueDateFound(k, text) ==
    extract_date(clean_text(text), REGISTRY[k].due_date) # NoDate

\* C15: a bank parser adds the statement-date weight (0.15) only when a
\* statement date was found in the text and the due-date weight (0.20) only
\* when a due date was found in the text; a date filled in by the default
\* earns no weight.
C15_DateWeightsOnlyWhenFound ==
    (pout.ok /\ pinst.cls \in 1..3) =>
        pout.bill.confidence_score =
            Clamp(10
                  + (IF pout.bill.card_last_four # 0 THEN 10 ELSE 0)
                  + (IF StatementDateFound(pinst.cls, ptext) THEN 15 ELSE 0)
                  + (IF DueDateFound(pinst.cls, ptext) THEN 20 ELSE 0)
                  + (IF pout.bill.total_amount_due > 0 THEN 30 ELSE -20)
                  + (IF pout.bill.minimum_due > 0 THEN 15 ELSE 0))

Lines(text) == {text[i] : i \in 1..Len(text)}

\* A text with the CTBC keyword, a total of 12,345.67, a minimum of 1,000
\* and the due date 2024-02-05, without a card suffix and without a
\* statement date.
CtbcStatement(text) ==
    /\ HasAtom(text, "zhongguoxintuo")
    /\ Tok(<<"benqi", "yingjiao", "jine">>, AmountVal(1234567, "")) \in Lines(text)
    /\ Tok(<<"zuidi", "yingjiao", "jine">>, AmountVal(100000, "")) \in Lines(text)
    /\ Tok(<<"jiaokuan", "jiezhi", "ri">>, DateVal(2024, 2, 5, "-")) \in Lines(text)
    /\ \A i \in 1..Len(text) :
          /\ text[i].val.kind # "card"
          /\ ~IsSuffix(<<"zhangdan", "riqi">>, text[i].lit)

\* C16: for such a text the selector chooses the CTBC parser, and the result
\* has total_amount_due = 12345.67, minimum_due = 1000,
\* due_date = 2024-02-05 and confidence_score > 0.8.
C16_CtbcStatement ==
    (CtbcStatement(ptext) /\ pinst.selected) =>
        /\ pinst.cls = 1
        /\ pout # NotCalled =>
              /\ pout.ok
              /\ pout.bill.total_amount_due = 1234567
              /\ pout.bill.minimum_due = 100000
              /\ pout.bill.due_date = MkDate(2024, 2, 5)
              /\ pout.bill.confidence_score > 80

C16_Witness ==
    /\ CtbcStatement(ptext)
    /\ pinst.selected
    /\ pout.ok
    /\ pout.bill.bank_name = "CTBC"
    /\ pout.bill.confidence_score = 90

\* No keyword of a bank occurs in the text; the generic patterns find no
\* amount in it; they find no card suffix in it.
NoBankKeyword(text) == \A k \in 1..3 : ~can_parse(REGISTRY[k], text)
NoAmountIn(text) ==
    extract_amount(clean_text(text), GenericParser.total_amount) = NoAmount
NoCardSuffixIn(text) ==
    extract_card_last_four(clean_text(text), GenericParser.CARD_PATTERNS) < 0

\* C17: for every text without a bank keyword and without an extractable
\* amount, the selector chooses the generic parser and the result has
\* bank_name 'Unknown Bank', total_amount_due 0, card_last_four '0000' when
\* the text has no card suffix, and confidence_score <= 0.6.
C17_GenericDefaults ==
    (pinst.selected /\ NoBankKeyword(ptext) /\ NoAmountIn(ptext)) =>
        /\ pinst.cls = 4
        /\ pout # NotCalled =>
              /\ pout.ok
              /\ pout.bill.bank_name = "Unknown Bank"
              /\ pout.bill.total_amount_due = 0
              /\ NoCardSuffixIn(ptext) => pout.bill.card_last_four = 0
              /\ pout.bill.confidence_score <= 60

\* The days that the parser of class k adds to the statement date.
DueOffset(k) == <<20, 15, 20, 20>>[k]

\* C18: for every parser, when no due-date pattern yields a date the
\* result's due_date is its statement_date plus the parser's offset (20 days
\* for CTBC, 15 for Cathay United, 20 for Taishin, 20 for the generic
\* parser); an extracted due date is used unchanged.
C18_DueDateDefault ==
    pout # NotCalled =>
        /\ pout.ok
        /\ pout.bill.due_date =
              IF DueDateFound(pinst.cls, ptext)
              THEN extract_date(clean_text(ptext), REGISTRY[pinst.cls].due_date)
              ELSE AddDays(pout.bill.statement_date, DueOffset(pinst.cls))

\* The minguo dates written in the text.
MinguoVals(text) == {text[i].val : i \in {j \in 1..Len(text) : text[j].val.kind = "minguo"}}

\* The Gregorian date of the minguo date v, the default date when v has no
\* valid month and day.
GregorianOrDefault(v) ==
    IF ValidDate(v.y + 1911, v.m, v.d) THEN MkDate(v.y + 1911, v.m, v.d) ELSE Today

\* C19: for each bank parser (CTBC, Cathay United, Taishin), a statement whose
\* statement date is written only in the minguo form is parsed to
\* statement_date = Gregorian (Y + 1911, M, D); a Gregorian statement date
\* matched by an earlier pattern takes precedence; an invalid minguo month or
\* day falls back to the default date instead of raising.
C19_MinguoDate ==
    (pout # NotCalled /\ pinst.cls \in 1..3) =>
        IF extract_date(clean_text(ptext), REGISTRY[pinst.cls].statement_date) # NoDate
        THEN pout.ok =>
                pout.bill.statement_date =
                    extract_date(clean_text(ptext), REGISTRY[pinst.cls].statement_date)
        ELSE \A v \in MinguoVals(ptext) :
                MinguoVals(ptext) = {v} =>
                    pout.ok /\ pout.bill.statement_date = GregorianOrDefault(v)

\* C20: with the current date held fixed, parse(text) on a parser instance is
\* a function of the text alone: after any earlier parse calls on the
\* instance, it returns the field values that a fresh instance of the same
\* parser returns for the same text.
C20_ParseIsFunctionOfText ==
    pout # NotCalled => pout = ParseOn(New(pinst.cls), ptext).result

\* C21: the parse_bill_data calls of one worker process, run one after
\* another or at the same time on the shared bank-parser instances, do not
\* influence each other: each call returns what parse_bill_data returns for
\* its text alone.
C21_CallsAreIndependent ==
    \A c \in Calls :
        proc.calls[c].pc = "done" => proc.calls[c].out = parse_bill_data(proc.calls[c].text)

\* Two calls with different parsers ran at the same time, and both returned.
C21_Witness ==
    /\ proc.calls[1].pc = "done" /\ proc.calls[2].pc = "done"
    /\ proc.calls[1].parser = 1 /\ proc.calls[2].parser = 3
    /\ proc.last = 3
    /\ proc.calls[1].out.ok /\ proc.calls[2].out.ok
    /\ proc.calls[1].out.bill.bank_name = "CTBC"
    /\ proc.calls[2].out.bill.bank_name = "Taishin Bank"

\* The execution of worker w has extracted the text of a PDF.
ExtractedPdf(w) ==
    /\ exec[w].pc = "parse"
    /\ artifacts[exec[w].artifact_id].mime_type = "application/pdf"

\* C22: in extract_from_pdf, a PDF whose text layer yields more than 100
\* characters is returned from the text layer and the OCR service is not
\* invoked for it; a scanned PDF (text layer below the threshold) goes
\* through OCR and, when OCR succeeds, the OCR text is what is returned.
C22_PdfRouting ==
    \A w \in Workers :
        ExtractedPdf(w) =>
            /\ (exec[w].file.pdf.success /\ TextLen(exec[w].file.pdf.text) > 100) =>
                  exec[w].text = exec[w].file.pdf.text /\ ~exec[w].ocr
            /\ (exec[w].file.scanned /\ TextLen(exec[w].file.pdf.text) < 100
                  /\ exec[w].file.ocr.success) =>
                  exec[w].text = exec[w].file.ocr.text /\ exec[w].ocr

\* A scanned PDF with a short text layer went through OCR.
C22_Witness ==
    \E w \in Workers :
        /\ ExtractedPdf(w)
        /\ exec[w].file.pdf = ServiceOk(ShortText)
        /\ exec[w].file.scanned
        /\ exec[w].ocr
        /\ exec[w].text = OcrText

\* The number of keywords of bank k that occur in the text, whatever their
\* case; a keyword that occurs several times counts once.
KeywordScore(k, text) ==
    Cardinality({kw \in BANK_INDICATORS[k].indicators :
                    \E i \in 1..Len(text) : IsInfix(kw, Lower(text[i].lit))})

\* What detect_bank answered to the generic parser: "" for none.
Detected == IF pinst.BANK_NAME = "Unknown Bank" THEN "" ELSE pinst.BANK_NAME

ExtractedFrom(k, text) ==
    Opt(extract_card_last_four(clean_text(text), REGISTRY[k].CARD_PATTERNS) >= 0,
        "card_last_four")
    \o Opt(StatementDateFound(k, text), "statement_date")
    \o Opt(DueDateFound(k, text), "due_date")
    \o Opt(extract_amount(clean_text(text), REGISTRY[k].total_amount) # NoAmount,
           "total_amount_due")
    \o Opt(extract_amount(clean_text(text), REGISTRY[k].minimum_due) # NoAmount,
           "minimum_due")

\* C24: for every parser and text, extracted_fields holds a field name
\* exactly when that field was extracted from the text (not defaulted), in
\* the order card_last_four, statement_date, due_date, total_amount_due,
\* minimum_due; but a generic-parser result with confidence below 0.5 has
\* extracted_fields = ['needs_review'].
C24_ExtractedFields ==
    pout.ok =>
        pout.bill.extracted_fields =
            IF pinst.cls = 4 /\ pout.bill.confidence_score < 50
            THEN <<"needs_review">>
            ELSE ExtractedFrom(pinst.cls, ptext)

\* The YYYY-MM rendering of a date: the four digits of the year and the two
\* digits of the month.
YyyyMm(dt) ==
    [year |-> <<dt.y \div 1000, (dt.y \div 100) % 10, (dt.y \div 10) % 10, dt.y % 10>>,
     month |-> <<dt.m \div 10, dt.m % 10>>]

\* C25: for every parser and every text, the returned ParsedBill has
\* statement_date and due_date populated and statement_month equal to the
\* YYYY-MM rendering of its statement_date; the Bill row built from it
\* likewise has statement_month equal to YYYY-MM of its statement_date.
C25_StatementMonth ==
    pout.ok =>
        /\ pout.bill.statement_date # NoDate
        /\ pout.bill.due_date # NoDate
        /\ pout.bill.statement_month = YyyyMm(pout.bill.statement_date)
        /\ MkBillRow(1, 1, pout.bill).statement_month =
              YyyyMm(MkBillRow(1, 1, pout.bill).statement_date)

\* The Bills that reference artifact a; some execution for a committed
\* 'completed' (it returned the success result).
BillsOf(a) == {b \in bills : b.source_artifact_id = a}
CommittedCompleted(a) == \E k \in Deliveries : results[<<a, k>>].status = "success"

Ends(w) ==
    /\ exec[w].pc # "idle"
    /\ exec'[w].pc = "idle"
    /\ results'[TaskOf(w)].status # "killed"

C27_Step ==
    \A w \in Workers :
        Ends(w) =>
            \/ artifacts'[exec[w].artifact_id].processing_status \in {"completed", "failed"}
            \/ /\ artifacts' = artifacts
               /\ artifacts[exec[w].artifact_id].processing_status = "processing"
               /\ exec[w].retries < 3 =>
                     /\ results'[TaskOf(w)].status = "retry"
                     /\ MkMessage(exec[w].artifact_id, exec[w].delivery,
                                  exec[w].retries + 1, 60) \in queue'

\* C27: every execution that found its artifact and is not killed ends, and
\* when it returns or schedules a retry the artifact is 'completed' or
\* 'failed', not 'processing'; but when the status write of the failure
\* handler itself fails, the artifact stays 'processing' and the retry is
\* scheduled all the same.
C27_ExecutionLeavesFinalStatus ==
    /\ [][C27_Step]_vars
    /\ \A w \in Workers : (exec[w].pc # "idle") ~> (exec[w].pc = "idle")

\* An execution has scheduled its retry and left the artifact 'failed'.
C27_Witness ==
    \E t \in TaskIds :
        /\ results[t].status = "retry"
        /\ executions[t] = 2
        /\ artifacts[t[1]].processing_status = "failed"
        /\ \A w \in Workers : exec[w].pc = "idle"

\* C28: the bank detector and the parser selector agree: when detect_bank
\* returns bank B the selector returns B's parser, and when the selector
\* returns a bank parser detect_bank returns that parser's bank.
C28_DetectorAgreesWithSelector ==
    pinst.selected =>
        /\ detect_bank(ptext) # "" => REGISTRY[pinst.cls].BANK_NAME = detect_bank(ptext)
        /\ pinst.cls \in 1..3 => detect_bank(ptext) = REGISTRY[pinst.cls].BANK_NAME

\* C29: the two parser registries are equivalent: for every text,
\* parse_bill_data of the task module parses with a parser of the class that
\* get_parser_for_statement of the parsers package returns for the text,
\* and yields the same ParsedBill field values (or raises alike).
C29_RegistriesAgree ==
    (pinst.selected /\ pinst.calls = 1 /\ pout # NotCalled) =>
        /\ pout = parse_bill_data(ptext)
        /\ \A k \in 1..Len(PARSERS) :
              (can_parse(PARSERS[k], ptext)
                  /\ \A j \in 1..(k - 1) : ~can_parse(PARSERS[j], ptext)) =>
                      PARSERS[k] = REGISTRY[pinst.cls]
        /\ (\A k \in 1..Len(PARSERS) : ~can_parse(PARSERS[k], ptext)) => IsGeneric(pinst.cls)

\* A text with the keywords of two banks was parsed by the selector's parser.
C29_Witness ==
    /\ pinst.selected /\ pinst.calls = 1
    /\ pinst.cls = 1
    /\ HasAtom(ptext, "guotai") /\ HasAtom(ptext, "zhongguoxintuo")
    /\ pout.ok
    /\ pout.bill.bank_name = "CTBC"

\* C30: every ParsedBill that the generic parser produces when reached
\* through the selector has bank_name 'Unknown Bank': a text in which the
\* detector finds a bank is taken by a bank parser first, so the generic
\* parser's bonus for a detected bank is never awarded.
C30_GenericIsUnknownBank ==
    (pinst.selected /\ pinst.cls = 4 /\ pinst.calls = 1) =>
        /\ pinst.BANK_NAME = "Unknown Bank"
        /\ detect_bank(clean_text(ptext)) = ""
        /\ pout.ok => pout.bill.bank_name = "Unknown Bank"
        /\ parse_bill_data(ptext) = pout
        /\ \A k \in 1..Len(BANK_INDICATORS) :
              /\ BANK_INDICATORS[k].bank = REGISTRY[k].BANK_NAME
              /\ BANK_INDICATORS[k].indicators \subseteq REGISTRY[k].DETECTION_KEYWORDS

\* The selector's generic parser returned a bill with an amount.
C30_Witness ==
    /\ pinst.selected /\ pinst.cls = 4 /\ pinst.calls = 1
    /\ pout.ok
    /\ pout.bill.total_amount_due > 0
    /\ pout.bill.bank_name = "Unknown Bank"
====
